---- MODULE Spec2Model ----
(***************************************************************************)
(* Natural-language query resolution and execution for the companies       *)
(* database: the rule-based resolvers (mcp_server.parse_nl_query,          *)
(* web_mcp_server / llm_mcp_server fallback_to_sql,                        *)
(* test_query.parse_natural_language_query), the model-backed resolver     *)
(* (llm_to_sql), and the resolve -> execute -> render pipeline of each     *)
(* entry point.  Questions, model responses and query texts are strings,   *)
(* handled character by character as Python handles them.                  *)
(***************************************************************************)
EXTENDS Integers, Sequences, FiniteSets, TLC

(***************************************************************************)
(* Bounds of the model.                                                    *)
(***************************************************************************)
\* Largest number of vocabulary words joined into one question.
MaxWords == 2
\* Number of rows of the populated companies table.
MaxRows == 12
\* connections left open at one time that are counted
MaxOpen == 2

(***************************************************************************)
(* Python str operations.                                                  *)
(***************************************************************************)
UpperLetters == <<"A","B","C","D","E","F","G","H","I","J","K","L","M",
                  "N","O","P","Q","R","S","T","U","V","W","X","Y","Z">>
LowerLetters == <<"a","b","c","d","e","f","g","h","i","j","k","l","m",
                  "n","o","p","q","r","s","t","u","v","w","x","y","z">>
Digits == {"0","1","2","3","4","5","6","7","8","9"}
Whitespace == {" ", "\t", "\n", "\r", "\f"}

Range(f) == {f[i] : i \in DOMAIN f}

\* s[i] (1-based), as a one-character string
CharAt(s, i) == SubSeq(s, i, i)

\* s[i-1:j] in Python terms: the characters i..j (1-based, inclusive), with the
\* slice clamped to the string as Python clamps it
Slice(s, i, j) ==
    LET a == IF i < 1 THEN 1 ELSE i
        b == IF j > Len(s) THEN Len(s) ELSE j
    IN  IF a > b THEN "" ELSE SubSeq(s, a, b)

\* s[i:] (1-based i)
From(s, i) == SubSeq(s, i, Len(s))

\* sub in s
Contains(s, sub) ==
    \E i \in 1..(Len(s) - Len(sub) + 1) : SubSeq(s, i, i + Len(sub) - 1) = sub

\* s.startswith(p)
StartsWith(s, p) == Len(p) <= Len(s) /\ SubSeq(s, 1, Len(p)) = p

\* s.endswith(p)
EndsWith(s, p) == Len(p) <= Len(s) /\ SubSeq(s, Len(s) - Len(p) + 1, Len(s)) = p

\* s.find(sub) + 1: the 1-based position of the first occurrence, 0 when absent
Find(s, sub) ==
    IF Contains(s, sub)
    THEN CHOOSE i \in 1..(Len(s) - Len(sub) + 1) :
            /\ SubSeq(s, i, i + Len(sub) - 1) = sub
            /\ \A j \in 1..(i - 1) : SubSeq(s, j, j + Len(sub) - 1) # sub
    ELSE 0

\* number of occurrences of the one-character string c in s
CountChar(s, c) == Cardinality({i \in 1..Len(s) : CharAt(s, i) = c})

LowerChar(c) ==
    IF \E i \in 1..26 : UpperLetters[i] = c
    THEN LowerLetters[CHOOSE i \in 1..26 : UpperLetters[i] = c]
    ELSE c

UpperChar(c) ==
    IF \E i \in 1..26 : LowerLetters[i] = c
    THEN UpperLetters[CHOOSE i \in 1..26 : LowerLetters[i] = c]
    ELSE c

RECURSIVE Lower(_)
\* s.lower()
Lower(s) == IF s = "" THEN "" ELSE LowerChar(CharAt(s, 1)) \o Lower(From(s, 2))

RECURSIVE Upper(_)
\* s.upper()
Upper(s) == IF s = "" THEN "" ELSE UpperChar(CharAt(s, 1)) \o Upper(From(s, 2))

RECURSIVE LStrip(_)
LStrip(s) ==
    IF s # "" /\ CharAt(s, 1) \in Whitespace THEN LStrip(From(s, 2)) ELSE s

RECURSIVE RStrip(_)
RStrip(s) ==
    IF s # "" /\ CharAt(s, Len(s)) \in Whitespace
    THEN RStrip(SubSeq(s, 1, Len(s) - 1))
    ELSE s

\* s.strip()
Strip(s) == RStrip(LStrip(s))

(***************************************************************************)
(* re.search(r'company\s+(?:named\s+)?([a-zA-Z0-9\s]+)', question):        *)
(* a backtracking match.  \s+ and the group are greedy, the optional       *)
(* "named\s+" is tried before it is skipped, and the leftmost start wins.  *)
(***************************************************************************)
\* the character class [a-zA-Z0-9\s]
\* the class as it would be with quotation and punctuation let in
NameClassWithPunctuation ==
    Range(UpperLetters) \cup Range(LowerLetters) \cup Digits \cup Whitespace
        \cup {"\"", "'", ";", "-"}

NameClass == Range(UpperLetters) \cup Range(LowerLetters) \cup Digits \cup Whitespace

RECURSIVE RunLen(_, _, _)
\* length of the longest run of characters of class C that starts at s[p]
RunLen(s, p, C) ==
    IF p <= Len(s) /\ CharAt(s, p) \in C THEN 1 + RunLen(s, p + 1, C) ELSE 0

SetMax(S) == CHOOSE m \in S : \A n \in S : n <= m

NoMatch == [ok |-> FALSE, group |-> ""]

\* the group ([a-zA-Z0-9\s]+) matched greedily at position p
GroupAt(s, p) ==
    LET n == RunLen(s, p, NameClass)
    IN  IF n >= 1 THEN [ok |-> TRUE, group |-> SubSeq(s, p, p + n - 1)] ELSE NoMatch

\* (?:named\s+) taken at p, its \s+ as long as lets the group match
NamedAt(s, p) ==
    IF Slice(s, p, p + 4) = "named"
    THEN LET w  == RunLen(s, p + 5, Whitespace)
             Ms == {m \in 1..w : GroupAt(s, p + 5 + m).ok}
         IN  IF Ms # {} THEN GroupAt(s, p + 5 + SetMax(Ms)) ELSE NoMatch
    ELSE NoMatch

\* (?:named\s+)?([a-zA-Z0-9\s]+) at p: the optional part taken first, then skipped
TailAt(s, p) == IF NamedAt(s, p).ok THEN NamedAt(s, p) ELSE GroupAt(s, p)

\* the whole pattern anchored at s[i]
MatchAt(s, i) ==
    IF Slice(s, i, i + 6) = "company"
    THEN LET w  == RunLen(s, i + 7, Whitespace)
             Ks == {k \in 1..w : TailAt(s, i + 7 + k).ok}
         IN  IF Ks # {} THEN TailAt(s, i + 7 + SetMax(Ks)) ELSE NoMatch
    ELSE NoMatch

\* re.search: the match at the leftmost position that has one
re_search(s) ==
    LET Is == {i \in 1..Len(s) : MatchAt(s, i).ok}
    IN  IF Is # {} THEN MatchAt(s, CHOOSE i \in Is : \A j \in Is : i <= j)
        ELSE NoMatch

(***************************************************************************)
(* mcp_server.parse_nl_query                                               *)
(***************************************************************************)
\* the chain with the account categories tested before the company categories
category_terms_account_first(q) ==
    IF Contains(q, "dormant")
        THEN <<"\"Accounts.AccountCategory\" = \"DORMANT\"">>
    ELSE IF Contains(q, "exemption")
        THEN <<"\"Accounts.AccountCategory\" LIKE \"%EXEMPTION%\"">>
    ELSE IF Contains(q, "full") /\ Contains(q, "accounts")
        THEN <<"\"Accounts.AccountCategory\" = \"FULL\"">>
    ELSE IF Contains(q, "no accounts") \/ Contains(q, "no accounts filed")
        THEN <<"\"Accounts.AccountCategory\" = \"NO ACCOUNTS FILED\"">>
    ELSE IF Contains(q, "unaudited")
        THEN <<"\"Accounts.AccountCategory\" LIKE \"%UNAUDITED%\"">>
    ELSE IF Contains(q, "group")
        THEN <<"\"Accounts.AccountCategory\" = \"GROUP\"">>
    ELSE IF Contains(q, "private") /\ Contains(q, "limited")
        THEN <<"\"CompanyCategory\" LIKE \"%Private Limited Company%\"">>
    ELSE IF Contains(q, "charitable")
        THEN <<"\"CompanyCategory\" LIKE \"%Charitable%\"">>
    ELSE IF Contains(q, "community") /\ Contains(q, "interest")
        THEN <<"\"CompanyCategory\" LIKE \"%Community Interest%\"">>
    ELSE IF Contains(q, "limited") /\ Contains(q, "partnership")
        THEN <<"\"CompanyCategory\" LIKE \"%Limited Partnership%\"">>
    ELSE IF Contains(q, "overseas")
        THEN <<"\"CompanyCategory\" LIKE \"%Overseas%\"">>
    ELSE <<>>

\* lines 49-72: the single entry of category_terms, <<>> on the else branch (the
\* generic search, which returns at once)
category_terms(q) ==
    IF Contains(q, "private") /\ Contains(q, "limited")
        THEN <<"\"CompanyCategory\" LIKE \"%Private Limited Company%\"">>
    ELSE IF Contains(q, "charitable")
        THEN <<"\"CompanyCategory\" LIKE \"%Charitable%\"">>
    ELSE IF Contains(q, "community") /\ Contains(q, "interest")
        THEN <<"\"CompanyCategory\" LIKE \"%Community Interest%\"">>
    ELSE IF Contains(q, "limited") /\ Contains(q, "partnership")
        THEN <<"\"CompanyCategory\" LIKE \"%Limited Partnership%\"">>
    ELSE IF Contains(q, "overseas")
        THEN <<"\"CompanyCategory\" LIKE \"%Overseas%\"">>
    ELSE IF Contains(q, "dormant")
        THEN <<"\"Accounts.AccountCategory\" = \"DORMANT\"">>
    ELSE IF Contains(q, "exemption")
        THEN <<"\"Accounts.AccountCategory\" LIKE \"%EXEMPTION%\"">>
    ELSE IF Contains(q, "full") /\ Contains(q, "accounts")
        THEN <<"\"Accounts.AccountCategory\" = \"FULL\"">>
    ELSE IF Contains(q, "no accounts") \/ Contains(q, "no accounts filed")
        THEN <<"\"Accounts.AccountCategory\" = \"NO ACCOUNTS FILED\"">>
    ELSE IF Contains(q, "unaudited")
        THEN <<"\"Accounts.AccountCategory\" LIKE \"%UNAUDITED%\"">>
    ELSE IF Contains(q, "group")
        THEN <<"\"Accounts.AccountCategory\" = \"GROUP\"">>
    ELSE <<>>

RECURSIVE Join(_, _)
\* sep.join(seq)
Join(sep, seq) ==
    IF seq = <<>> THEN ""
    ELSE IF Len(seq) = 1 THEN seq[1]
    ELSE seq[1] \o sep \o Join(sep, Tail(seq))

\* lines 46-80: the branch taken when the question has "category" or "type"
category_sql(q) ==
    IF category_terms(q) = <<>>
    THEN "SELECT \"CompanyName\", \" CompanyNumber\", \"CompanyCategory\", \"Accounts.AccountCategory\" FROM companies WHERE \"CompanyCategory\" IS NOT NULL OR \"Accounts.AccountCategory\" IS NOT NULL LIMIT 10"
    ELSE "SELECT \"CompanyName\", \"CompanyNumber\", \"CompanyCategory\", \"Accounts.AccountCategory\" FROM companies WHERE "
         \o Join(" OR ", category_terms(q)) \o " LIMIT 10"

\* the name search with everything after "company" taken as the name
name_search_sql_rest_of_question(q) ==
    "SELECT * FROM companies WHERE \"CompanyName\" LIKE \"%"
    \o Strip(From(q, Find(q, "company") + 7)) \o "%\" LIMIT 5"

\* lines 81-88: the branch taken when the question has "company" and "name"
name_search_sql(q) ==
    LET match == re_search(q)
    IN  IF match.ok
        THEN "SELECT * FROM companies WHERE \"CompanyName\" LIKE \"%"
             \o Strip(match.group) \o "%\" LIMIT 5"
        ELSE "SELECT \"CompanyName\", \"CompanyNumber\" FROM companies LIMIT 10"

parse_nl_query(question) ==
    LET q == Strip(Lower(question))
    IN
    IF Contains(q, " all") /\ Contains(q, "companies")
        THEN "SELECT \"CompanyName\", \"CompanyNumber\", \"CompanyStatus\" FROM companies LIMIT 10"
    ELSE IF Contains(q, "count") /\ Contains(q, "companies")
        THEN "SELECT COUNT(*) as total_companies FROM companies"
    ELSE IF Contains(q, "active") /\ Contains(q, "companies")
        THEN "SELECT \"CompanyName\", \"CompanyNumber\" FROM companies WHERE \"CompanyStatus\" = \"Active\" LIMIT 10"
    ELSE IF Contains(q, "dissolved") /\ Contains(q, "companies")
        THEN "SELECT \"CompanyName\", \"CompanyNumber\", \"DissolutionDate\" FROM companies WHERE \"CompanyStatus\" = \"Dissolved\" LIMIT 10"
    ELSE IF Contains(q, "micro") /\ Contains(q, "entity")
        THEN "SELECT \"CompanyName\", \"CompanyNumber\", \"Accounts.AccountCategory\" FROM companies WHERE \"Accounts.AccountCategory\" = \"MICRO ENTITY\" LIMIT 10"
    ELSE IF Contains(q, "small") /\ (Contains(q, "companies") \/ Contains(q, "business"))
        THEN "SELECT \"CompanyName\", \"CompanyNumber\", \"Accounts.AccountCategory\" FROM companies WHERE \"Accounts.AccountCategory\" = \"SMALL\" LIMIT 10"
    ELSE IF Contains(q, "medium") /\ (Contains(q, "companies") \/ Contains(q, "business"))
        THEN "SELECT \"CompanyName\", \"CompanyNumber\", \"Accounts.AccountCategory\" FROM companies WHERE \"Accounts.AccountCategory\" = \"MEDIUM\" LIMIT 10"
    ELSE IF Contains(q, "large") /\ (Contains(q, "companies") \/ Contains(q, "business"))
        THEN "SELECT \"CompanyName\", \"CompanyNumber\", \"Accounts.AccountCategory\" FROM companies WHERE \"Accounts.AccountCategory\" = \"LARGE\" LIMIT 10"
    ELSE IF Contains(q, "category") \/ Contains(q, "type")
        THEN category_sql(q)
    ELSE IF Contains(q, "company") /\ Contains(q, "name")
        THEN name_search_sql(q)
    ELSE "SELECT \"CompanyName\", \"CompanyNumber\", \"CompanyStatus\" FROM companies LIMIT 10"

(***************************************************************************)
(* web_mcp_server.WebMCPServer.fallback_to_sql                             *)
(***************************************************************************)
web_fallback_to_sql(question) ==
    LET q == Lower(question)
    IN
    IF Contains(q, "list") /\ Contains(q, "companies")
        THEN "SELECT \"CompanyName\", \" CompanyNumber\", \"CompanyStatus\" FROM companies LIMIT 10"
    ELSE IF Contains(q, "count") /\ Contains(q, "companies")
        THEN "SELECT COUNT(*) as total_companies FROM companies"
    ELSE IF Contains(q, "active") /\ Contains(q, "companies")
        THEN "SELECT \"CompanyName\", \" CompanyNumber\" FROM companies WHERE \"CompanyStatus\" = \"Active\" LIMIT 10"
    ELSE IF Contains(q, "micro") /\ Contains(q, "entity")
        THEN "SELECT \"CompanyName\", \" CompanyNumber\", \"Accounts.AccountCategory\" FROM companies WHERE \"Accounts.AccountCategory\" = \"MICRO ENTITY\" LIMIT 10"
    ELSE IF Contains(q, "small") /\ Contains(q, "companies")
        THEN "SELECT \"CompanyName\", \" CompanyNumber\", \"Accounts.AccountCategory\" FROM companies WHERE \"Accounts.AccountCategory\" = \"SMALL\" LIMIT 10"
    ELSE IF Contains(q, "private") /\ Contains(q, "limited")
        THEN "SELECT \"CompanyName\", \" CompanyNumber\", \"CompanyCategory\" FROM companies WHERE \"CompanyCategory\" LIKE \"%Private Limited Company%\" LIMIT 10"
    ELSE IF Contains(q, "charitable")
        THEN "SELECT \"CompanyName\", \" CompanyNumber\", \"CompanyCategory\" FROM companies WHERE \"CompanyCategory\" LIKE \"%Charitable%\" LIMIT 10"
    ELSE IF Contains(q, "dormant")
        THEN "SELECT \"CompanyName\", \" CompanyNumber\", \"Accounts.AccountCategory\" FROM companies WHERE \"Accounts.AccountCategory\" = \"DORMANT\" LIMIT 10"
    ELSE "SELECT \"CompanyName\", \" CompanyNumber\", \"CompanyStatus\" FROM companies LIMIT 5"

(***************************************************************************)
(* llm_mcp_server.LLMMCPServer.fallback_to_sql                             *)
(***************************************************************************)
\* the fallback with the row cap left off its listing template
llm_fallback_to_sql_no_limit(question) ==
    IF Contains(Lower(question), "list") /\ Contains(Lower(question), "companies")
        THEN "SELECT \"CompanyName\", \" CompanyNumber\", \"CompanyStatus\" FROM companies"
    ELSE "SELECT \"CompanyName\", \" CompanyNumber\", \"CompanyStatus\" FROM companies LIMIT 5"

llm_fallback_to_sql(question) ==
    LET q == Lower(question)
    IN
    IF Contains(q, "list") /\ Contains(q, "companies")
        THEN "SELECT \"CompanyName\", \" CompanyNumber\", \"CompanyStatus\" FROM companies LIMIT 10"
    ELSE IF Contains(q, "count") /\ Contains(q, "companies")
        THEN "SELECT COUNT(*) as total_companies FROM companies"
    ELSE IF Contains(q, "active") /\ Contains(q, "companies")
        THEN "SELECT \"CompanyName\", \" CompanyNumber\" FROM companies WHERE \"CompanyStatus\" = \"Active\" LIMIT 10"
    ELSE IF Contains(q, "micro") /\ Contains(q, "entity")
        THEN "SELECT \"CompanyName\", \" CompanyNumber\", \"Accounts.AccountCategory\" FROM companies WHERE \"Accounts.AccountCategory\" = \"MICRO ENTITY\" LIMIT 10"
    ELSE "SELECT \"CompanyName\", \" CompanyNumber\", \"CompanyStatus\" FROM companies LIMIT 5"

\* test_query.py lines 28-35: the branch taken when the question has "company"
\* and "name"
test_name_search_sql(q) ==
    LET match == re_search(q)
    IN  IF match.ok
        THEN "SELECT * FROM companies WHERE \"CompanyName\" LIKE \"%"
             \o Strip(match.group) \o "%\" LIMIT 5"
        ELSE "SELECT \"CompanyName\", \" CompanyNumber\" FROM companies LIMIT 10"

(***************************************************************************)
(* test_query.parse_natural_language_query                                 *)
(***************************************************************************)
parse_natural_language_query(question) ==
    LET q == Strip(Lower(question))
    IN
    IF Contains(q, "list") /\ Contains(q, "companies")
        THEN "SELECT \"CompanyName\", \" CompanyNumber\", \"CompanyStatus\" FROM companies LIMIT 10"
    ELSE IF Contains(q, "count") /\ Contains(q, "companies")
        THEN "SELECT COUNT(*) as total_companies FROM companies"
    ELSE IF Contains(q, "active") /\ Contains(q, "companies")
        THEN "SELECT \"CompanyName\", \" CompanyNumber\" FROM companies WHERE \"CompanyStatus\" = \"Active\" LIMIT 10"
    ELSE IF Contains(q, "dissolved") /\ Contains(q, "companies")
        THEN "SELECT \"CompanyName\", \" CompanyNumber\", \"DissolutionDate\" FROM companies WHERE \"CompanyStatus\" = \"Dissolved\" LIMIT 10"
    ELSE IF Contains(q, "company") /\ Contains(q, "name")
        THEN test_name_search_sql(q)
    ELSE "SELECT \"CompanyName\", \" CompanyNumber\", \"CompanyStatus\" FROM companies LIMIT 10"

(***************************************************************************)
(* The companies table, as load_data.py creates it, and SQLite's reading   *)
(* of a query text.  A row maps a column name to its text; a column with   *)
(* no entry is NULL.  A database is [exists, rows]: whether the companies  *)
(* table exists, and its rows in rowid order.                              *)
(***************************************************************************)
\* columns of the source file that the resolvers name, in the file's order;
\* load_data.py strips the surrounding spaces of " CompanyNumber"
TableColumns ==
    <<"CompanyName", "CompanyNumber", "CompanyCategory", "CompanyStatus",
      "DissolutionDate", "Accounts.AccountCategory">>

SampleNames == <<"ACME LTD", "Foo Trading", "ZED CIC", "Named Holdings">>
SampleStatus == <<"Active", "Active - Proposal to Strike off", "Liquidation">>
SampleCompanyCategory ==
    <<"Private Limited Company", "Charitable Incorporated Organisation",
      "Community Interest Company", "Limited Partnership", "Overseas Entity">>
SampleAccountCategory ==
    <<"MICRO ENTITY", "DORMANT", "TOTAL EXEMPTION FULL", "NO ACCOUNTS FILED",
      "SMALL", "FULL", "GROUP">>

Pick(seq, i) == seq[((i - 1) % Len(seq)) + 1]

\* the i-th row of the sample data: every fifth row has no account category and
\* no row has a dissolution date (the live register holds no dissolved company)
SampleRow(i) ==
    LET base == [c \in {"CompanyName", "CompanyNumber", "CompanyCategory",
                        "CompanyStatus"} |->
                   CASE c = "CompanyName"     -> Pick(SampleNames, i)
                     [] c = "CompanyNumber"   -> Pick(<<"0", "1">>, i) \o Pick(<<"7", "8", "9">>, i)
                     [] c = "CompanyCategory" -> Pick(SampleCompanyCategory, i)
                     [] c = "CompanyStatus"   -> Pick(SampleStatus, i)]
    IN  IF i % 5 = 0 THEN base
        ELSE [c \in DOMAIN base \cup {"Accounts.AccountCategory"} |->
                IF c \in DOMAIN base THEN base[c] ELSE Pick(SampleAccountCategory, i)]

SampleTable(n) == [i \in 1..n |-> SampleRow(i)]

NoTable == [exists |-> FALSE, rows |-> <<>>]

\* the databases a server may find: no companies table, an empty one, one row,
\* MaxRows rows
Databases ==
    {NoTable} \cup {[exists |-> TRUE, rows |-> SampleTable(n)] : n \in {0, 1, MaxRows}}

(***************************************************************************)
(* SQLite's tokenizer, for the part of the language the resolvers and the  *)
(* model responses use.                                                    *)
(***************************************************************************)
Letters == Range(UpperLetters) \cup Range(LowerLetters)
WordStart == Letters \cup {"_"}
WordChars == Letters \cup Digits \cup {"_"}

RECURSIVE FindFrom(_, _, _)
\* position of the first character c at or after p, 0 when there is none
FindFrom(s, c, p) ==
    IF p > Len(s) THEN 0 ELSE IF CharAt(s, p) = c THEN p ELSE FindFrom(s, c, p + 1)

Tok(k, v) == [k |-> k, v |-> v]

RECURSIVE Lex(_, _)
\* the tokens of s from position p on: words, "quoted" and 'quoted' texts,
\* numbers and punctuation; white space and -- comments are skipped
Lex(s, p) ==
    IF p > Len(s) THEN <<>>
    ELSE LET c == CharAt(s, p)
         IN  IF c \in Whitespace THEN Lex(s, p + 1)
             ELSE IF Slice(s, p, p + 1) = "--"
                  THEN LET e == FindFrom(s, "\n", p)
                       IN  IF e = 0 THEN <<>> ELSE Lex(s, e + 1)
             ELSE IF c \in {"\"", "'"}
                  THEN LET e == FindFrom(s, c, p + 1)
                       IN  IF e = 0 THEN <<Tok("bad", From(s, p))>>
                           ELSE <<Tok(IF c = "'" THEN "sq" ELSE "dq",
                                      Slice(s, p + 1, e - 1))>> \o Lex(s, e + 1)
             ELSE IF c \in WordStart
                  THEN LET n == RunLen(s, p, WordChars)
                       IN  <<Tok("word", SubSeq(s, p, p + n - 1))>> \o Lex(s, p + n)
             ELSE IF c \in Digits
                  THEN LET n == RunLen(s, p, Digits)
                       IN  <<Tok("num", SubSeq(s, p, p + n - 1))>> \o Lex(s, p + n)
             ELSE <<Tok("punct", c)>> \o Lex(s, p + 1)

DigitSeq == <<"0","1","2","3","4","5","6","7","8","9">>
DigitValue(c) == (CHOOSE i \in 1..10 : DigitSeq[i] = c) - 1

RECURSIVE ToNat(_)
\* the number a digit string denotes
ToNat(s) ==
    IF s = "" THEN 0
    ELSE 10 * ToNat(SubSeq(s, 1, Len(s) - 1)) + DigitValue(CharAt(s, Len(s)))

IsWord(t, W) == t.k = "word" /\ Upper(t.v) = W
IsPunct(t, c) == t.k = "punct" /\ t.v = c

\* index of the first token of toks, at or after from, that satisfies Test; 0 if none
FirstIndex(toks, from, Test(_)) ==
    LET Is == {i \in from..Len(toks) : Test(toks[i])}
    IN  IF Is = {} THEN 0 ELSE CHOOSE i \in Is : \A j \in Is : i <= j

SubToks(toks, a, b) == IF a > b THEN <<>> ELSE SubSeq(toks, a, b)

\* a token with a word's letter case folded, as SQLite reads keywords
Norm(t) == IF t.k = "word" THEN Tok("word", Upper(t.v)) ELSE t

RECURSIVE SplitOn(_, _)
\* toks cut at every token whose normal form is in Seps
SplitOn(toks, Seps) ==
    LET IsSep(t) == Norm(t) \in Seps
        i == FirstIndex(toks, 1, IsSep)
    IN  IF i = 0 THEN <<toks>>
        ELSE <<SubToks(toks, 1, i - 1)>> \o SplitOn(SubToks(toks, i + 1, Len(toks)), Seps)

(***************************************************************************)
(* SQLite's evaluation of one statement.  A cell is NULL, a text or an     *)
(* integer.                                                                *)
(***************************************************************************)
NullCell == [t |-> "null", s |-> "", n |-> 0]
TextCell(s) == [t |-> "text", s |-> s, n |-> 0]
IntCell(n) == [t |-> "int", s |-> "", n |-> n]

\* identifiers are matched without regard to letter case
LowerColumns == [i \in 1..Len(TableColumns) |-> Lower(TableColumns[i])]

HasColumn(name) ==
    LET l == Lower(name) IN \E i \in 1..Len(TableColumns) : LowerColumns[i] = l

ColumnNamed(name) ==
    LET l == Lower(name)
    IN  TableColumns[CHOOSE i \in 1..Len(TableColumns) : LowerColumns[i] = l]

\* the value of column c (a name of TableColumns) in a row
ColumnCell(row, c) == IF c \in DOMAIN row THEN TextCell(row[c]) ELSE NullCell

\* an operand names something: a word must be a column; a "quoted" text that is
\* no column is read as a string literal
OperandOk(t) == t.k \in {"dq", "sq", "num"} \/ (t.k = "word" /\ HasColumn(t.v))

\* what an operand stands for, settled when the statement is prepared: a column
\* of the row, or a constant
Bind(t) ==
    CASE t.k \in {"dq", "word"} /\ HasColumn(t.v) ->
            [column |-> ColumnNamed(t.v), cell |-> NullCell]
      [] t.k = "num" -> [column |-> "", cell |-> IntCell(ToNat(t.v))]
      [] OTHER -> [column |-> "", cell |-> TextCell(t.v)]

\* the value of a bound operand in a row
Value(b, row) == IF b.column # "" THEN ColumnCell(row, b.column) ELSE b.cell

RECURSIVE Like(_, _)
\* v LIKE p: % matches any run, _ any one character, letters without regard to case
Like(v, p) ==
    IF p = "" THEN v = ""
    ELSE IF CharAt(p, 1) = "%"
         THEN \E k \in 0..Len(v) : Like(Slice(v, k + 1, Len(v)), From(p, 2))
    ELSE /\ v # ""
         /\ CharAt(p, 1) = "_" \/ LowerChar(CharAt(v, 1)) = LowerChar(CharAt(p, 1))
         /\ Like(From(v, 2), From(p, 2))

\* one comparison of a WHERE clause: a = b, a LIKE b, a IS NOT NULL
TermShape(d) ==
    CASE Len(d) = 3 /\ IsPunct(d[2], "=") -> "eq"
      [] Len(d) = 3 /\ IsWord(d[2], "LIKE") -> "like"
      [] Len(d) = 4 /\ IsWord(d[2], "IS") /\ IsWord(d[3], "NOT") /\ IsWord(d[4], "NULL")
            -> "notnull"
      [] OTHER -> "bad"

TermOperands(d) == IF TermShape(d) = "notnull" THEN <<d[1]>> ELSE <<d[1], d[3]>>

\* a comparison with its operands bound
BindTerm(d) ==
    [shape |-> TermShape(d), a |-> Bind(d[1]),
     b |-> IF TermShape(d) = "notnull" THEN Bind(d[1]) ELSE Bind(d[3])]

TermHolds(t, row) ==
    LET a == Value(t.a, row)
        b == Value(t.b, row)
    IN  CASE t.shape = "notnull" -> a.t # "null"
          [] t.shape = "eq" -> a.t # "null" /\ a = b
          [] OTHER -> a.t = "text" /\ b.t = "text" /\ Like(a.s, b.s)

\* a WHERE clause is a disjunction of comparisons
WhereHolds(terms, row) == \E i \in 1..Len(terms) : TermHolds(terms[i], row)

\* one entry of the result-column list: *, COUNT(*) [AS alias], or an operand
ItemShape(it) ==
    CASE Len(it) = 1 /\ IsPunct(it[1], "*") -> "star"
      [] Len(it) \in {4, 6} /\ IsWord(it[1], "COUNT") /\ IsPunct(it[2], "(")
            /\ IsPunct(it[3], "*") /\ IsPunct(it[4], ")")
            /\ (Len(it) = 6 => IsWord(it[5], "AS") /\ it[6].k \in {"word", "dq"}) -> "count"
      [] Len(it) = 1 /\ it[1].k \in {"dq", "sq", "num", "word"} -> "operand"
      [] OTHER -> "bad"

\* the names SQLite reports for an entry: a column's declared name, an alias, or
\* the text of the expression as written
ItemNames(it) ==
    CASE ItemShape(it) = "star" -> TableColumns
      [] ItemShape(it) = "count" -> <<IF Len(it) = 6 THEN it[6].v ELSE "COUNT(*)">>
      [] it[1].k \in {"dq", "word"} /\ HasColumn(it[1].v) -> <<ColumnNamed(it[1].v)>>
      [] it[1].k = "dq" -> <<"\"" \o it[1].v \o "\"">>
      [] it[1].k = "sq" -> <<"'" \o it[1].v \o "'">>
      [] OTHER -> <<it[1].v>>

\* the operands whose values make up an entry's cells
ItemBinds(it) ==
    IF ItemShape(it) = "star"
    THEN [i \in 1..Len(TableColumns) |-> [column |-> TableColumns[i], cell |-> NullCell]]
    ELSE <<Bind(it[1])>>

RECURSIVE Flatten(_)
Flatten(seqs) == IF seqs = <<>> THEN <<>> ELSE Head(seqs) \o Flatten(Tail(seqs))

RECURSIVE Filter(_, _)
\* the rows of a table that satisfy a WHERE clause, in table order
Filter(rows, terms) ==
    IF rows = <<>> THEN <<>>
    ELSE (IF WhereHolds(terms, Head(rows)) THEN <<Head(rows)>> ELSE <<>>)
         \o Filter(Tail(rows), terms)

\* SELECT items FROM table [WHERE terms] [LIMIT n], read off the tokens
ParseSelect(toks) ==
    LET IsFrom(t)  == IsWord(t, "FROM")
        IsWhere(t) == IsWord(t, "WHERE")
        IsLimit(t) == IsWord(t, "LIMIT")
        f     == FirstIndex(toks, 2, IsFrom)
        w     == FirstIndex(toks, 2, IsWhere)
        l     == FirstIndex(toks, 2, IsLimit)
        last  == IF l = 0 THEN Len(toks) ELSE l - 1
        items == SplitOn(SubToks(toks, 2, f - 1), {Tok("punct", ",")})
        terms == IF w = 0 THEN <<>>
                 ELSE SplitOn(SubToks(toks, w + 1, last), {Tok("word", "OR")})
    IN  [ok    |-> /\ f > 2 /\ Len(toks) > f
                   /\ toks[f + 1].k \in {"word", "dq"}
                   /\ \A i \in 1..Len(items) : ItemShape(items[i]) # "bad"
                   /\ IF w = 0 THEN last = f + 1 ELSE w = f + 2
                   /\ \A i \in 1..Len(terms) : TermShape(terms[i]) # "bad"
                   /\ l # 0 => l = Len(toks) - 1 /\ toks[Len(toks)].k = "num",
         items |-> items,
         table |-> IF Len(toks) > f THEN toks[f + 1].v ELSE "",
         where |-> w # 0,
         terms |-> terms,
         limit |-> IF l # 0 /\ l < Len(toks) /\ toks[Len(toks)].k = "num"
                   THEN ToNat(toks[Len(toks)].v) ELSE -1]

Prefix(seq, n) == IF n < 0 \/ n >= Len(seq) THEN seq ELSE SubSeq(seq, 1, n)

\* what the statement leaves: raised (with SQLite's message) or run; the result
\* columns (has_description FALSE for a statement that returns no rows: the
\* cursor's description is None); the rows; the table as stored afterwards; and
\* whether the connection now holds an uncommitted change
Outcome(raised, error, has_description, description, rows, db, pending) ==
    [raised |-> raised, error |-> error, has_description |-> has_description,
     description |-> description, rows |-> rows, db |-> db, pending |-> pending]

Raise(error, db) == Outcome(TRUE, error, FALSE, <<>>, <<>>, db, FALSE)

NearSyntaxError(t) == "near \"" \o t.v \o "\": syntax error"

\* the parsed statement q run against the table
RunParsedSelect(q, toks, db) ==
    LET operands == Flatten([i \in 1..Len(q.items) |->
                        IF ItemShape(q.items[i]) = "operand" THEN <<q.items[i][1]>> ELSE <<>>])
                    \o Flatten([i \in 1..Len(q.terms) |-> TermOperands(q.terms[i])])
        unknown  == {i \in 1..Len(operands) : ~OperandOk(operands[i])}
        terms    == [i \in 1..Len(q.terms) |-> BindTerm(q.terms[i])]
        matched  == IF q.where THEN Filter(db.rows, terms) ELSE db.rows
        counting == \E i \in 1..Len(q.items) : ItemShape(q.items[i]) = "count"
        names    == Flatten([i \in 1..Len(q.items) |-> ItemNames(q.items[i])])
        binds    == Flatten([i \in 1..Len(q.items) |-> ItemBinds(q.items[i])])
        kept     == Prefix(matched, q.limit)
        rowsOut  == IF counting
                    THEN Prefix(<<[i \in 1..Len(q.items) |-> IntCell(Len(matched))]>>, q.limit)
                    ELSE [r \in 1..Len(kept) |->
                            [i \in 1..Len(binds) |-> Value(binds[i], kept[r])]]
    IN  IF ~q.ok THEN Raise(NearSyntaxError(toks[Len(toks)]), db)
        ELSE IF ~db.exists \/ Lower(q.table) # "companies"
             THEN Raise("no such table: " \o q.table, db)
        ELSE IF unknown # {}
             THEN Raise("no such column: "
                        \o operands[CHOOSE i \in unknown : \A j \in unknown : i <= j].v, db)
        ELSE Outcome(FALSE, "", TRUE, names, rowsOut, db, FALSE)

RunSelect(toks, db) == RunParsedSelect(ParseSelect(toks), toks, db)

\* DROP TABLE runs outside any transaction and is stored at once; INSERT, UPDATE
\* and DELETE open a transaction that only commit() would store
RunWrite(toks, db) ==
    LET verb  == Upper(toks[1].v)
        table == CASE verb = "DROP" /\ Len(toks) >= 3 /\ IsWord(toks[2], "TABLE") -> toks[3].v
                   [] verb \in {"DELETE", "INSERT"} /\ Len(toks) >= 3 -> toks[3].v
                   [] verb = "UPDATE" /\ Len(toks) >= 2 -> toks[2].v
                   [] OTHER -> ""
    IN  IF table = "" THEN Raise(NearSyntaxError(toks[Len(toks)]), db)
        ELSE IF ~db.exists \/ Lower(table) # "companies"
             THEN Raise("no such table: " \o table, db)
        ELSE IF verb = "DROP"
             THEN Outcome(FALSE, "", FALSE, <<>>, <<>>, NoTable, FALSE)
        ELSE Outcome(FALSE, "", FALSE, <<>>, <<>>, db, TRUE)

\* the first statement of the text, prepared and run
RunStatement(first, db) ==
    IF first = <<>> THEN Outcome(FALSE, "", FALSE, <<>>, <<>>, db, FALSE)
    ELSE IF \E i \in 1..Len(first) : first[i].k = "bad"
         THEN Raise("unrecognized token: \""
                    \o first[CHOOSE i \in 1..Len(first) : first[i].k = "bad"].v \o "\"", db)
    ELSE IF IsWord(first[1], "SELECT") THEN RunSelect(first, db)
    ELSE IF first[1].k = "word" /\ Upper(first[1].v) \in {"DROP", "DELETE", "INSERT", "UPDATE"}
         THEN RunWrite(first, db)
    ELSE Raise(NearSyntaxError(first[1]), db)

\* sqlite3.Connection.execute(sql): the first statement is prepared (and its
\* errors raised); text after it is refused before anything runs
OneStatement(o, more, db) ==
    IF ~o.raised /\ more
    THEN Raise("You can only execute one statement at a time.", db)
    ELSE o

ExecuteStatements(stmts, db) ==
    OneStatement(RunStatement(stmts[1], db), \E i \in 2..Len(stmts) : stmts[i] # <<>>, db)

sqlite_execute(sql, db) == ExecuteStatements(SplitOn(Lex(sql, 1), {Tok("punct", ";")}), db)

(***************************************************************************)
(* The query block every handler shares: connect, execute, read the        *)
(* column names off cursor.description, build one dict per row, close.     *)
(***************************************************************************)
RECURSIVE MakeDict(_, _)
\* dict(zip(keys, values)): entries in insertion order; a repeated key keeps
\* its first place and takes the last value
MakeDict(keys, values) ==
    IF keys = <<>> \/ values = <<>> THEN <<>>
    ELSE LET n    == IF Len(keys) < Len(values) THEN Len(keys) ELSE Len(values)
             init == MakeDict(SubSeq(keys, 1, n - 1), SubSeq(values, 1, n - 1))
             e    == [key |-> keys[n], value |-> values[n]]
         IN  IF \E i \in 1..Len(init) : init[i].key = e.key
             THEN [i \in 1..Len(init) |-> IF init[i].key = e.key THEN e ELSE init[i]]
             ELSE Append(init, e)

DictKeys(d) == [i \in 1..Len(d) |-> d[i].key]

\* iterating cursor.description when the statement returned no rows (None)
NoneTypeError == "'NoneType' object is not iterable"

\* the outcome of the block: ok with columns and results, or the exception text;
\* the stored table afterwards; whether conn.close() was reached
\* o is what conn.execute(sql) left
fetch_results(o) ==
    IF o.raised
    THEN [ok |-> FALSE, error |-> o.error, columns |-> <<>>, results |-> <<>>,
          db |-> o.db, closed |-> FALSE]
    ELSE IF ~o.has_description
         THEN [ok |-> FALSE, error |-> NoneTypeError, columns |-> <<>>,
               results |-> <<>>, db |-> o.db, closed |-> FALSE]
    ELSE [ok |-> TRUE, error |-> "", columns |-> o.description,
          results |-> [r \in 1..Len(o.rows) |->
                          MakeDict([i \in 1..Len(o.description) |-> TextCell(o.description[i])],
                                   o.rows[r])],
          db |-> o.db, closed |-> TRUE]

run_query(sql, db) == fetch_results(sqlite_execute(sql, db))

(***************************************************************************)
(* Rendering.                                                              *)
(***************************************************************************)
RECURSIVE ToStr(_)
\* str(n) for n >= 0
ToStr(n) == IF n < 10 THEN DigitSeq[n + 1] ELSE ToStr(n \div 10) \o DigitSeq[(n % 10) + 1]

\* a response with nothing in it; the handlers fill in what their payload has.
\* kind: "json" (a JSON body with the named keys), "http_error" (status and
\* detail), "text" (one tool text block), "html" (the results fragment of the
\* page), "return" (test_query's return value), "none" (no response yet)
NoResponse ==
    [kind |-> "none", status |-> 0, detail |-> "", text |-> "", keys |-> <<>>,
     question |-> "", sql |-> "", columns |-> <<>>, results |-> <<>>, count |-> 0,
     llm_used |-> FALSE]

HTTPException(status, detail) ==
    [NoResponse EXCEPT !.kind = "http_error", !.status = status, !.detail = detail]

(***************************************************************************)
(* Inputs: questions are vocabulary words joined by single spaces.         *)
(***************************************************************************)
Words ==
    { "list", "all", "show all", "companies", "count", "Active", "dissolved",
      "micro entity", "small", "medium", "large", "business", "category", "type",
      "private limited", "charitable", "charitable category",
      "community interest",
      "limited partnership", "overseas", "dormant", "exemption", "full accounts",
      "no accounts", "unaudited", "group", "company named", "company", "name",
      "Acme\"; DROP TABLE companies;--", "O'Neil_%", "company;\tname", "xyzzy" }

\* the words a question goes on with after its first two
TailWords == {"companies", "category", "Acme\"; DROP TABLE companies;--"}

RECURSIVE WordSeqs(_)
\* the sequences of exactly n words: any two words, then words of TailWords
WordSeqs(n) ==
    IF n = 0 THEN {<<>>}
    ELSE {Append(ws, w) : ws \in WordSeqs(n - 1), w \in IF n <= 2 THEN Words ELSE TailWords}

Questions == UNION {{Join(" ", ws) : ws \in WordSeqs(n)} : n \in 0..MaxWords}

Resolvers == {"parse_nl_query", "web_fallback_to_sql", "llm_fallback_to_sql",
              "parse_natural_language_query"}

\* the questions the servers are asked
PipelineQuestions ==
    { "", "  ", "list companies", "count companies", "active companies",
      "dissolved companies", "micro entity companies", "charitable category",
      "company named acme", "company named Foo\"; DROP TABLE companies;--",
      "xyzzy" }

\* an optional argument: <<>> when the caller left it out, <<text>> otherwise
Arguments == {<<>>} \cup {<<q>> : q \in PipelineQuestions}

\* what the external model may answer; ^^^ stands for the three-grave-accent
\* code fence, a character that cannot be written in a string of this language
ModelContents ==
    { "SELECT \"CompanyName\", \"CompanyStatus\" FROM companies LIMIT 2",
      "^^^sql\nSELECT COUNT(*) FROM companies\n^^^",
      "^^^\nSELECT * FROM companies LIMIT 10\n^^^",
      "  SELECT * FROM companies;\n",
      "SELECT \"CompanyName\" FROM companies WHERE \"CompanyStatus\" = 'Dissolved' LIMIT 10",
      "SELECT nosuch FROM companies",
      "SELECT \"CompanyName\", \"CompanyName\" FROM companies LIMIT 2",
      "I cannot answer that",
      "", "^^^sql^^^", " \n",
      "DROP TABLE companies",
      "DELETE FROM companies",
      "INSERT INTO companies (\"CompanyName\") VALUES (\"X\")",
      "update companies set \"CompanyStatus\" = \"Dissolved\"" }

Programs == {"mcp_server", "llm_mcp_server", "web_mcp_server", "test_query"}

\* the environment variables the servers read: <<>> when unset, else <<value>>
EnvNames == {"OPENAI_KEY", "OPENAI_API_KEY"}
Environs == [EnvNames -> {<<>>, <<"">>, <<"sk-test">>}]
NoEnviron == [n \in EnvNames |-> <<>>]

VARIABLES
    pc,             \* "start", "idle", "attempting_model", "done"; "question" and
                    \* "resolved" when a resolver is studied on its own
    resolver,       \* the rule-based resolver invoked ("none" when none was)
    question,       \* the question text the handler works on
    sql_query,      \* the resolved query text
    program,        \* the program that runs
    HAS_OPENAI,     \* whether the import of openai succeeded
    environ,        \* the process environment
    llm_available,  \* self.llm_available
    schema,         \* self.schema
    db,             \* the stored companies table
    entry,          \* the handler of the request in progress
    request,        \* the question argument as the caller gave it
    source,         \* who produced sql_query: "model", "rule" or "none"
    response,       \* what the handler gave back
    db_at_start,    \* the stored table when the request arrived
    model_calls,    \* calls of the model made for this request
    rule_calls,     \* calls of a rule-based resolver made for this request
    storage_calls,  \* statements handed to storage for this request
    model_failed,   \* whether the model call of this request raised
    conn_left_open, \* whether the handler returned without conn.close()
    open_connections \* connections opened for requests and not closed since

config == <<program, HAS_OPENAI, environ, llm_available, schema>>
req == <<entry, request, source, response, db_at_start, model_calls, rule_calls,
         storage_calls, model_failed, conn_left_open, open_connections>>
vars == <<pc, resolver, question, sql_query, config, db, req>>


(***************************************************************************)
(* Construction: LLMMCPServer.__init__ and WebMCPServer.__init__.          *)
(***************************************************************************)
NoSchema == [table |-> "", columns |-> <<>>, sample_data |-> <<>>]

\* the type load_data.py declares: the dissolution dates are all missing and so
\* a float column, the rest are text
ColumnType(c) == IF c = "DissolutionDate" THEN "REAL" ELSE "TEXT"

\* PRAGMA table_info(companies), then SELECT * FROM companies LIMIT 3; the keys
\* of a sample row are col[1] of each description entry, which is None; any
\* exception leaves the empty description
schema_info(o, d) ==
    IF o.raised
    THEN [table |-> "companies", columns |-> <<>>, sample_data |-> <<>>]
    ELSE [table |-> "companies",
          columns |-> IF d.exists
                      THEN [i \in 1..Len(TableColumns) |->
                              [name |-> TableColumns[i], type |-> ColumnType(TableColumns[i])]]
                      ELSE <<>>,
          sample_data |-> [r \in 1..Len(o.rows) |->
                             MakeDict([i \in 1..Len(o.description) |-> NullCell], o.rows[r])]]

get_database_schema(d) == schema_info(sqlite_execute("SELECT * FROM companies LIMIT 3", d), d)

\* the flag as it would be set if only the import were looked at
init_llm_available_import_only(has_openai, api_key) == has_openai

\* lines 34-45: the model is used when openai was imported and the key is set
\* and not empty
init_llm_available(has_openai, api_key) ==
    IF has_openai THEN (IF api_key # <<>> /\ api_key[1] # "" THEN TRUE ELSE FALSE) ELSE FALSE

LLMMCPServer_init ==
    /\ pc = "start" /\ program = "llm_mcp_server"
    /\ llm_available' = init_llm_available(HAS_OPENAI, environ["OPENAI_KEY"])
    /\ schema' = get_database_schema(db)
    /\ pc' = "idle"
    /\ UNCHANGED <<resolver, question, sql_query, program, HAS_OPENAI, environ, db, req>>

WebMCPServer_init ==
    /\ pc = "start" /\ program = "web_mcp_server"
    /\ llm_available' = init_llm_available(HAS_OPENAI, environ["OPENAI_API_KEY"])
    /\ schema' = get_database_schema(db)
    /\ pc' = "idle"
    /\ UNCHANGED <<resolver, question, sql_query, program, HAS_OPENAI, environ, db, req>>

(***************************************************************************)
(* The model-backed resolver, llm_to_sql (the same code in both servers).  *)
(***************************************************************************)
\* lines 175-183: strip, drop a leading fence with the sql tag, drop a trailing
\* fence, strip
clean_response(content) ==
    LET a == Strip(content)
        b == IF StartsWith(a, "^^^sql") THEN From(a, 7) ELSE a
        c == IF EndsWith(b, "^^^") THEN SubSeq(b, 1, Len(b) - 3) ELSE b
    IN  Strip(c)

fallback_to_sql(prog, q) ==
    IF prog = "llm_mcp_server" THEN llm_fallback_to_sql(q) ELSE web_fallback_to_sql(q)

\* llm_to_sql without its except branch: nothing comes back when the call raises
llm_to_sql_no_except(prog, q, reply) == clean_response(reply.content)

\* reply: [raised |-> whether the call raised, content |-> the text it returned]
llm_to_sql(prog, q, reply) ==
    IF reply.raised THEN fallback_to_sql(prog, q) ELSE clean_response(reply.content)

(***************************************************************************)
(* Payloads.                                                               *)
(***************************************************************************)
\* llm_mcp_server.ask_about_companies, lines 131-140: one text block; when rows
\* were found the text ends with json.dumps(results, indent=2), carried here
\* as results
tool_answer(sql, r) ==
    [NoResponse EXCEPT
        !.kind = "text",
        !.results = r.results,
        !.text = IF ~r.ok THEN "Error: " \o r.error \o "\nSQL: " \o sql
                 ELSE IF Len(r.results) = 0
                      THEN "SQL Query: " \o sql \o "\n\nNo results found."
                 ELSE "SQL Query: " \o sql \o "\n\nFound " \o ToStr(Len(r.results))
                      \o " results:\n"]

\* web_mcp_server.query_companies, lines 101-111
web_result(q, sql, r, llm) ==
    IF r.ok
    THEN [NoResponse EXCEPT
            !.kind = "json", !.status = 200,
            !.keys = <<"question", "sql_query", "results", "count", "columns", "llm_used">>,
            !.question = q, !.sql = sql, !.results = r.results,
            !.count = Len(r.results), !.columns = r.columns, !.llm_used = llm]
    ELSE HTTPException(500, "Query error: " \o r.error)

\* mcp_server.query_db, lines 119-127
query_db_result(sql, r) ==
    IF r.ok
    THEN [NoResponse EXCEPT
            !.kind = "json", !.status = 200,
            !.keys = <<"sql", "columns", "results", "count">>,
            !.sql = sql, !.columns = r.columns, !.results = r.results,
            !.count = Len(r.results)]
    ELSE HTTPException(500, "Query error: " \o r.error)

\* mcp_server.ask_submit, lines 217-250: the page shows the question, the query
\* text and this fragment; the header and the cells of the table are carried as
\* columns and results
ask_page(q, sql, r) ==
    [NoResponse EXCEPT
        !.kind = "html", !.status = 200, !.question = q, !.sql = sql,
        !.columns = r.columns, !.results = r.results,
        !.text =
            IF ~r.ok
            THEN "<div style=\"color: red; margin: 16px 0;\">Error: " \o r.error \o "</div>"
            ELSE IF Len(r.results) > 0
                 THEN "<table style=\"width:100%; border-collapse:collapse; margin-top:24px;\">"
            ELSE "<div style=\"margin: 16px 0;\">No results found.</div>"]

\* test_query.test_query, lines 66-76: the dict, or None
test_query_result(sql, r) ==
    IF r.ok
    THEN [NoResponse EXCEPT
            !.kind = "return", !.keys = <<"sql", "columns", "results", "count">>,
            !.sql = sql, !.columns = r.columns, !.results = r.results,
            !.count = Len(r.results)]
    ELSE [NoResponse EXCEPT !.kind = "return_none"]

\* the payload of a program's handler
render(prog, e, q, sql, r, llm) ==
    CASE prog = "llm_mcp_server" -> tool_answer(sql, r)
      [] prog = "web_mcp_server" -> web_result(q, sql, r, llm)
      [] prog = "test_query"     -> test_query_result(sql, r)
      [] e = "ask_submit"        -> ask_page(q, sql, r)
      [] OTHER                   -> query_db_result(sql, r)

(***************************************************************************)
(* The handlers.                                                           *)
(***************************************************************************)
Idle == pc = "idle"

\* the request is refused before anything is resolved or run
Refuse(e, arg, resp) ==
    /\ pc' = "done"
    /\ entry' = e /\ request' = arg /\ response' = resp
    /\ question' = IF arg = <<>> THEN "" ELSE arg[1]
    /\ sql_query' = "" /\ source' = "none" /\ resolver' = "none"
    /\ db_at_start' = db
    /\ model_calls' = 0 /\ rule_calls' = 0 /\ storage_calls' = 0
    /\ model_failed' = FALSE /\ conn_left_open' = FALSE
    /\ open_connections' = open_connections
    /\ UNCHANGED <<config, db>>

\* the query text sql, resolved by `by` ("model" or "rule"; `rule` names the
\* rule-based resolver that ran, if one did), is run and the payload built
Respond(e, arg, q, sql, by, rule, mcalls, failed, r) ==
    /\ pc' = "done"
    /\ entry' = e /\ request' = arg /\ question' = q
    /\ sql_query' = sql /\ source' = by /\ resolver' = rule
    /\ response' = render(program, e, q, sql, r, llm_available)
    /\ db' = r.db
    /\ db_at_start' = IF pc = "idle" THEN db ELSE db_at_start
    /\ model_calls' = mcalls
    /\ rule_calls' = IF rule = "none" THEN 0 ELSE 1
    /\ storage_calls' = 1
    /\ model_failed' = failed
    /\ conn_left_open' = ~r.closed
    /\ r.closed \/ open_connections < MaxOpen
    /\ open_connections' = IF r.closed THEN open_connections ELSE open_connections + 1
    /\ UNCHANGED config

Execute(e, arg, q, sql, by, rule, mcalls, failed) ==
    Respond(e, arg, q, sql, by, rule, mcalls, failed, run_query(sql, db))

\* the model is called: the handler waits in llm_to_sql
CallModel(e, arg, q) ==
    /\ pc' = "attempting_model"
    /\ entry' = e /\ request' = arg /\ question' = q
    /\ sql_query' = "" /\ source' = "none" /\ resolver' = "none"
    /\ response' = NoResponse
    /\ db_at_start' = db
    /\ model_calls' = 1 /\ rule_calls' = 0 /\ storage_calls' = 0
    /\ model_failed' = FALSE /\ conn_left_open' = FALSE
    /\ open_connections' = open_connections
    /\ UNCHANGED <<config, db>>

\* mcp_server: POST /query and GET /query
query_db(arg) ==
    /\ Idle /\ program = "mcp_server"
    /\ IF arg = <<>> \/ arg[1] = ""
       THEN Refuse("query_db", arg, HTTPException(400, "Question is required"))
       ELSE Execute("query_db", arg, arg[1], parse_nl_query(arg[1]), "rule",
                    "parse_nl_query", 0, FALSE)

\* mcp_server: POST /ask; question is a required form field (Form(...)), which
\* the framework refuses when it is missing or empty
ask_submit(arg) ==
    /\ Idle /\ program = "mcp_server"
    /\ IF arg = <<>> \/ arg[1] = ""
       THEN Refuse("ask_submit", arg, HTTPException(422, "Field required"))
       ELSE Execute("ask_submit", arg, arg[1], parse_nl_query(arg[1]), "rule",
                    "parse_nl_query", 0, FALSE)

\* llm_mcp_server: the ask_about_companies tool
ask_about_companies(arg) ==
    /\ Idle /\ program = "llm_mcp_server"
    /\ LET q == IF arg = <<>> THEN "" ELSE arg[1]
       IN  IF llm_available
           THEN CallModel("ask_about_companies", arg, q)
           ELSE Execute("ask_about_companies", arg, q, llm_fallback_to_sql(q), "rule",
                        "llm_fallback_to_sql", 0, FALSE)

\* query_companies taking the rule-based resolver whether or not a model is
\* available
query_companies_rules_only(e, arg) ==
    Execute(e, arg, arg[1], web_fallback_to_sql(arg[1]), "rule",
            "web_fallback_to_sql", 0, FALSE)

\* WebMCPServer.query_companies, up to the query block
query_companies(e, arg) ==
    IF llm_available
    THEN CallModel(e, arg, arg[1])
    ELSE Execute(e, arg, arg[1], web_fallback_to_sql(arg[1]), "rule",
                 "web_fallback_to_sql", 0, FALSE)

\* web_mcp_server: POST /query; the body must have a question (QueryRequest)
query_companies_post(arg) ==
    /\ Idle /\ program = "web_mcp_server"
    /\ IF arg = <<>>
       THEN Refuse("query_companies_post", arg, HTTPException(422, "Field required"))
       ELSE query_companies("query_companies_post", arg)

\* web_mcp_server: GET /query; question is a required parameter
query_companies_get(arg) ==
    /\ Idle /\ program = "web_mcp_server"
    /\ IF arg = <<>>
       THEN Refuse("query_companies_get", arg, HTTPException(422, "Field required"))
       ELSE IF arg[1] = ""
            THEN Refuse("query_companies_get", arg,
                        HTTPException(400, "Question parameter is required"))
       ELSE query_companies("query_companies_get", arg)

\* test_query.test_query
test_query(q) ==
    /\ Idle /\ program = "test_query"
    /\ Execute("test_query", <<q>>, q, parse_natural_language_query(q), "rule",
               "parse_natural_language_query", 0, FALSE)

\* llm_to_sql returns the model's text, cleaned
ModelReturns(content) ==
    /\ pc = "attempting_model"
    /\ Execute(entry, request, question,
               llm_to_sql(program, question, [raised |-> FALSE, content |-> content]),
               "model", "none", model_calls, FALSE)

\* the model call raises: llm_to_sql returns the rule-based query
ModelRaises ==
    /\ pc = "attempting_model"
    /\ Execute(entry, request, question,
               llm_to_sql(program, question, [raised |-> TRUE, content |-> ""]),
               "rule",
               IF program = "llm_mcp_server" THEN "llm_fallback_to_sql"
               ELSE "web_fallback_to_sql",
               model_calls, TRUE)

\* the payload has been sent; the server waits for the next request
Return ==
    /\ pc = "done"
    /\ pc' = "idle"
    /\ entry' = "none" /\ request' = <<>> /\ question' = "" /\ sql_query' = ""
    /\ source' = "none" /\ resolver' = "none" /\ response' = NoResponse
    /\ db_at_start' = db
    /\ model_calls' = 0 /\ rule_calls' = 0 /\ storage_calls' = 0
    /\ model_failed' = FALSE /\ conn_left_open' = FALSE
    /\ open_connections' = open_connections
    /\ UNCHANGED <<config, db>>

\* a connection that no handler closed is closed when the runtime frees the
\* object, some time after the handler that opened it has returned
Collect ==
    /\ pc = "idle" /\ open_connections > 0
    /\ open_connections' = open_connections - 1
    /\ UNCHANGED <<pc, resolver, question, sql_query, config, db, entry, request,
                   source, response, db_at_start, model_calls, rule_calls,
                   storage_calls, model_failed, conn_left_open>>

Init ==
    /\ program \in Programs
    /\ db \in Databases
    /\ IF program \in {"llm_mcp_server", "web_mcp_server"}
       THEN pc = "start" /\ HAS_OPENAI \in BOOLEAN /\ environ \in Environs
       ELSE pc = "idle" /\ HAS_OPENAI = FALSE /\ environ = NoEnviron
    /\ llm_available = FALSE /\ schema = NoSchema
    /\ resolver = "none" /\ question = "" /\ sql_query = ""
    /\ entry = "none" /\ request = <<>> /\ source = "none" /\ response = NoResponse
    /\ db_at_start = db /\ model_calls = 0 /\ rule_calls = 0
    /\ storage_calls = 0 /\ model_failed = FALSE /\ conn_left_open = FALSE
    /\ open_connections = 0

Next ==
    \/ LLMMCPServer_init
    \/ WebMCPServer_init
    \/ \E arg \in Arguments : query_db(arg)
    \/ \E arg \in Arguments : ask_submit(arg)
    \/ \E arg \in Arguments : ask_about_companies(arg)
    \/ \E arg \in Arguments : query_companies_post(arg)
    \/ \E arg \in Arguments : query_companies_get(arg)
    \/ \E q \in PipelineQuestions : test_query(q)
    \/ \E content \in ModelContents : ModelReturns(content)
    \/ ModelRaises
    \/ Return
    \/ Collect

Spec == Init /\ [][Next]_vars

(***************************************************************************)
(* The rule-based resolvers as pure functions: the question is drawn in    *)
(* the initial state and one action per resolver applies it.               *)
(***************************************************************************)
InitResolve ==
    /\ pc = "question"
    /\ resolver \in Resolvers
    /\ question \in Questions
    /\ sql_query = ""
    /\ program = "none" /\ HAS_OPENAI = FALSE /\ environ = NoEnviron
    /\ llm_available = FALSE /\ schema = NoSchema /\ db = NoTable
    /\ entry = "none" /\ request = <<>> /\ source = "none" /\ response = NoResponse
    /\ db_at_start = NoTable /\ model_calls = 0 /\ rule_calls = 0
    /\ storage_calls = 0 /\ model_failed = FALSE /\ conn_left_open = FALSE
    /\ open_connections = 0

Apply_parse_nl_query ==
    /\ pc = "question" /\ resolver = "parse_nl_query"
    /\ sql_query' = parse_nl_query(question)
    /\ pc' = "resolved"
    /\ UNCHANGED <<resolver, question, config, db, req>>

Apply_web_fallback_to_sql ==
    /\ pc = "question" /\ resolver = "web_fallback_to_sql"
    /\ sql_query' = web_fallback_to_sql(question)
    /\ pc' = "resolved"
    /\ UNCHANGED <<resolver, question, config, db, req>>

Apply_llm_fallback_to_sql ==
    /\ pc = "question" /\ resolver = "llm_fallback_to_sql"
    /\ sql_query' = llm_fallback_to_sql(question)
    /\ pc' = "resolved"
    /\ UNCHANGED <<resolver, question, config, db, req>>

Apply_parse_natural_language_query ==
    /\ pc = "question" /\ resolver = "parse_natural_language_query"
    /\ sql_query' = parse_natural_language_query(question)
    /\ pc' = "resolved"
    /\ UNCHANGED <<resolver, question, config, db, req>>

NextResolve ==
    \/ Apply_parse_nl_query
    \/ Apply_web_fallback_to_sql
    \/ Apply_llm_fallback_to_sql
    \/ Apply_parse_natural_language_query

SpecResolve == InitResolve /\ [][NextResolve]_vars

(***************************************************************************)
(* Properties of the request pipeline (specification Spec).                *)
(***************************************************************************)
\* the payload reports a failure of the query block
IsQueryError(resp) ==
    \/ resp.kind = "http_error" /\ resp.status = 500
    \/ resp.kind = "text" /\ StartsWith(resp.text, "Error: ")
    \/ resp.kind = "html" /\ Contains(resp.text, "Error: ")
    \/ resp.kind = "return_none"

\* the payload refuses the request as invalid
IsValidationError(resp) == resp.kind = "http_error" /\ resp.status \in {400, 422}

\* the first word of a query text, in upper case ("" when it has none)
LeadingVerb(sql) ==
    LET toks == Lex(sql, 1)
    IN  IF toks # <<>> /\ toks[1].k = "word" THEN Upper(toks[1].v) ELSE ""

WriteVerbs == {"INSERT", "UPDATE", "DELETE", "DROP"}

\* C1 (fallback equivalence): when the model call of a request raised, the
\* query text the handler ran is what fallback_to_sql returns for the question,
\* and the payload is the one the rule-based path gives for that query text on
\* the table as the request found it: nothing of the failure is in it.
C1_FallbackEquivalence ==
    (pc = "done" /\ model_failed) =>
        /\ sql_query = fallback_to_sql(program, question)
        /\ storage_calls = 1
        /\ response = render(program, entry, question, fallback_to_sql(program, question),
                             run_query(fallback_to_sql(program, question), db_at_start),
                             llm_available)

\* a failed model call on a question with a rule of its own: the count template
\* was run and its one row returned
C1_Witness ==
    /\ pc = "done" /\ model_failed /\ model_calls = 1
    /\ question = "count companies"
    /\ sql_query = "SELECT COUNT(*) as total_companies FROM companies"
    /\ db_at_start.exists /\ Len(response.results) = 1

\* C2 (write rejection): a request whose resolved query text starts with INSERT,
\* UPDATE, DELETE or DROP ends in a query error and leaves the companies table
\* (its existence and its rows) as the request found it.
C2_WriteRejection ==
    (pc = "done" /\ storage_calls = 1 /\ LeadingVerb(sql_query) \in WriteVerbs) =>
        /\ IsQueryError(response)
        /\ db = db_at_start

\* C8 (empty model output): the query block is never handed an empty query
\* text; a model response that is empty once cleaned is answered with the
\* rule-based query.
C8_EmptyModelOutput ==
    (pc = "done" /\ storage_calls = 1) =>
        sql_query # ""

\* the environment variable a server reads its credential from (llm_mcp_server
\* line 35, web_mcp_server line 38)
CredentialName(prog) == IF prog = "llm_mcp_server" THEN "OPENAI_KEY" ELSE "OPENAI_API_KEY"

\* the credential is not set, or set to the empty text
CredentialAbsent == environ[CredentialName(program)] \in {<<>>, <<"">>}

\* C9 (missing credential): with the credential absent, or the model library
\* not imported, the constructor raises nothing (the flag it computes is false
\* and the schema it reads is a description, an empty one when the table cannot
\* be read), it leaves llm_available false, no request ever waits for or counts
\* a model call, and every query text run comes from the server's rule-based
\* resolver.
C9_MissingCredentialRulePath ==
    (program \in {"llm_mcp_server", "web_mcp_server"} /\ (~HAS_OPENAI \/ CredentialAbsent)) =>
        /\ pc = "start" =>
              /\ init_llm_available(HAS_OPENAI, environ[CredentialName(program)]) = FALSE
              /\ get_database_schema(db).table = "companies"
              /\ ~db.exists => get_database_schema(db).columns = <<>>
        /\ pc # "start" => ~llm_available
        /\ pc # "attempting_model" /\ model_calls = 0
        /\ (pc = "done" /\ storage_calls = 1) =>
              /\ source = "rule" /\ rule_calls = 1
              /\ sql_query = fallback_to_sql(program, question)

\* a web server built with the library present and no key answered a question
\* from its rules
C9_Witness ==
    /\ pc = "done" /\ program = "web_mcp_server"
    /\ HAS_OPENAI /\ environ["OPENAI_API_KEY"] = <<>>
    /\ question = "active companies" /\ source = "rule" /\ model_calls = 0
    /\ response.kind = "json" /\ db_at_start.exists

\* the entry points a caller reaches: the tool, the JSON routes, the form
EntryPoints ==
    {"ask_about_companies", "query_db", "ask_submit", "query_companies_post",
     "query_companies_get"}

\* C10 (validation before resolution): on every entry point a request with a
\* missing or empty question is refused with a validation error and no
\* resolver, model or storage call is made for it.
C10_ValidationBeforeResolution ==
    (pc \in {"attempting_model", "done"} /\ entry \in EntryPoints
        /\ (request = <<>> \/ request[1] = "")) =>
        /\ model_calls = 0 /\ rule_calls = 0 /\ storage_calls = 0
        /\ pc = "done"
        /\ IF entry = "ask_about_companies"
           THEN response.kind = "text" /\ ~StartsWith(response.text, "SQL Query:")
           ELSE IsValidationError(response)

(***************************************************************************)
(* Properties of the rule-based resolvers (specification SpecResolve).     *)
(***************************************************************************)
\* the statements of a query text, split at the terminators outside quotes
Statements(sql) == SplitOn(Lex(sql, 1), {Tok("punct", ";")})

\* no terminator is followed by further text
SingleStatement(sql) == \A i \in 2..Len(Statements(sql)) : Statements(sql)[i] = <<>>

\* C3 (totality): whatever the question (the empty one, one with no keyword,
\* one with quotes and semicolons), each rule-based resolver returns a query
\* text that is not empty and holds one statement only.
C3_Totality ==
    pc = "resolved" => sql_query # "" /\ SingleStatement(sql_query)

\* a question with a quote, semicolons and a comment marker went through the
\* name search of parse_nl_query
C3_Witness ==
    /\ pc = "resolved" /\ resolver = "parse_nl_query"
    /\ question = "company named Acme\"; DROP TABLE companies;--"
    /\ sql_query = "SELECT * FROM companies WHERE \"CompanyName\" LIKE \"%acme%\" LIMIT 5"

\* the tables with MaxRows rows, one row and none
StoredTables == {d \in Databases : d.exists}

IsCountQuery(q) == \E i \in 1..Len(q.items) : ItemShape(q.items[i]) = "count"

\* o is what a resolved query text left on a table: one row for the count
\* template, at most ten otherwise
Capped(o, q) ==
    /\ ~o.raised
    /\ IF IsCountQuery(q) THEN Len(o.rows) = 1 ELSE Len(o.rows) <= 10

\* stmts are the statements of a query text and q its first one as parsed
CappedStatements(stmts, q) ==
    /\ stmts[1] # <<>> /\ IsWord(stmts[1][1], "SELECT")
    /\ q.ok
    /\ IsCountQuery(q) \/ q.limit \in 0..10
    /\ \A d \in StoredTables : Capped(ExecuteStatements(stmts, d), q)

CappedQuery(stmts) == CappedStatements(stmts, ParseSelect(stmts[1]))

\* C4 (row cap): every query text a rule-based resolver returns is a SELECT
\* that is the count template or carries LIMIT n with n <= 10, and on every
\* table it returns at most 10 rows (the count template exactly one).
C4_RowCap ==
    pc = "resolved" => CappedQuery(Statements(sql_query))

\* the listing template cut a table of MaxRows rows down to ten
C4_Witness ==
    /\ pc = "resolved" /\ resolver = "llm_fallback_to_sql"
    /\ question = "list companies"
    /\ MaxRows > 10
    /\ Len(sqlite_execute(sql_query, [exists |-> TRUE, rows |-> SampleTable(MaxRows)]).rows) = 10

\* the question as a resolver reads it: lower-cased, and stripped by the two
\* parsers (mcp_server line 27, test_query line 17)
Normalised(res, text) ==
    IF res \in {"parse_nl_query", "parse_natural_language_query"}
    THEN Strip(Lower(text)) ELSE Lower(text)

CompanyKeywords(q) ==
    \/ Contains(q, "private") /\ Contains(q, "limited")
    \/ Contains(q, "charitable")
    \/ Contains(q, "community") /\ Contains(q, "interest")
    \/ Contains(q, "limited") /\ Contains(q, "partnership")
    \/ Contains(q, "overseas")

SizeKeywords(q) ==
    \/ Contains(q, "micro") /\ Contains(q, "entity")
    \/ /\ Contains(q, "small") \/ Contains(q, "medium") \/ Contains(q, "large")
       /\ Contains(q, "companies") \/ Contains(q, "business")

OtherAccountKeywords(q) ==
    \/ Contains(q, "dormant") \/ Contains(q, "exemption")
    \/ Contains(q, "full") /\ Contains(q, "accounts")
    \/ Contains(q, "no accounts") \/ Contains(q, "unaudited") \/ Contains(q, "group")

Gate(q) == Contains(q, "category") \/ Contains(q, "type")

\* whether the predicate of a rule class matches the normalised question q, for
\* each resolver: the keywords it knows, gated as it gates them
RuleMatches(res, rule, q) ==
    CASE res = "parse_nl_query" ->
            CASE rule = "listing" -> Contains(q, " all") /\ Contains(q, "companies")
              [] rule = "count"   -> Contains(q, "count") /\ Contains(q, "companies")
              [] rule = "status"  -> /\ Contains(q, "active") \/ Contains(q, "dissolved")
                                     /\ Contains(q, "companies")
              [] rule = "size"    -> SizeKeywords(q)
              [] rule = "company" -> Gate(q) /\ CompanyKeywords(q)
              [] rule = "account" -> Gate(q) /\ OtherAccountKeywords(q)
              [] rule = "generic" -> Gate(q)
              [] rule = "name"    -> Contains(q, "company") /\ Contains(q, "name")
              [] OTHER -> FALSE
      [] res = "web_fallback_to_sql" ->
            CASE rule = "listing" -> Contains(q, "list") /\ Contains(q, "companies")
              [] rule = "count"   -> Contains(q, "count") /\ Contains(q, "companies")
              [] rule = "status"  -> Contains(q, "active") /\ Contains(q, "companies")
              [] rule = "size"    -> \/ Contains(q, "micro") /\ Contains(q, "entity")
                                     \/ Contains(q, "small") /\ Contains(q, "companies")
              [] rule = "company" -> \/ Contains(q, "private") /\ Contains(q, "limited")
                                     \/ Contains(q, "charitable")
              [] rule = "account" -> Contains(q, "dormant")
              [] OTHER -> FALSE
      [] res = "llm_fallback_to_sql" ->
            CASE rule = "listing" -> Contains(q, "list") /\ Contains(q, "companies")
              [] rule = "count"   -> Contains(q, "count") /\ Contains(q, "companies")
              [] rule = "status"  -> Contains(q, "active") /\ Contains(q, "companies")
              [] rule = "size"    -> Contains(q, "micro") /\ Contains(q, "entity")
              [] OTHER -> FALSE
      [] OTHER ->
            CASE rule = "listing" -> Contains(q, "list") /\ Contains(q, "companies")
              [] rule = "count"   -> Contains(q, "count") /\ Contains(q, "companies")
              [] rule = "status"  -> /\ Contains(q, "active") \/ Contains(q, "dissolved")
                                     /\ Contains(q, "companies")
              [] rule = "name"    -> Contains(q, "company") /\ Contains(q, "name")
              [] OTHER -> FALSE

\* the order the rule classes are tested in
RuleOrder == <<"listing", "count", "status", "size", "company", "account", "generic", "name">>

\* the first class of an order whose predicate matches, "default" when none does
FirstMatch(order, Matches(_), q) ==
    LET S == {i \in 1..Len(order) : Matches(order[i])}
    IN  IF S = {} THEN "default" ELSE order[CHOOSE i \in S : \A j \in S : i <= j]

\* the class of the first matching rule of a resolver
ExpectedRule(res, q) ==
    LET Matches(rule) == RuleMatches(res, rule, q)
    IN  FirstMatch(RuleOrder, Matches, q)

\* the rule class a query text is the template of, read off its text
RuleOf(sql) ==
    IF Contains(sql, "COUNT(*)") THEN "count"
    ELSE IF Contains(sql, "WHERE \"CompanyStatus\" =") THEN "status"
    ELSE IF Contains(sql, "IS NOT NULL") THEN "generic"
    ELSE IF Contains(sql, "WHERE \"CompanyName\" LIKE") THEN "name"
    ELSE IF Contains(sql, "WHERE \"CompanyCategory\" LIKE") THEN "company"
    ELSE IF \E size \in {"MICRO ENTITY", "SMALL", "MEDIUM", "LARGE"} :
                Contains(sql, "WHERE \"Accounts.AccountCategory\" = \"" \o size \o "\"")
         THEN "size"
    ELSE IF Contains(sql, "WHERE \"Accounts.AccountCategory\"") THEN "account"
    ELSE IF ~Contains(sql, "\"CompanyStatus\"") THEN "name"
    ELSE IF EndsWith(sql, "LIMIT 5") THEN "default"
    ELSE "listing"

\* the default of the two parsers is their listing template (mcp_server line
\* 91, test_query line 38)
TemplateClass(res, rule) ==
    IF rule = "default" /\ res \in {"parse_nl_query", "parse_natural_language_query"}
    THEN "listing" ELSE rule

\* the name search was reached and a name extracted from the question
NameSearched(res, q) ==
    /\ res \in {"parse_nl_query", "parse_natural_language_query"}
    /\ ExpectedRule(res, q) = "name"
    /\ re_search(q).ok

\* the tokens of the name-search statement around its pattern
NameSearchTokens(pattern) ==
    <<Tok("word", "SELECT"), Tok("punct", "*"), Tok("word", "FROM"),
      Tok("word", "companies"), Tok("word", "WHERE"), Tok("dq", "CompanyName"),
      Tok("word", "LIKE"), Tok("dq", pattern), Tok("word", "LIMIT"), Tok("num", "5")>>

\* a text of letters, digits and white space between two % signs
IsNamePattern(p) ==
    /\ Len(p) >= 2 /\ CharAt(p, 1) = "%" /\ CharAt(p, Len(p)) = "%"
    /\ \A i \in 2..(Len(p) - 1) :
          CharAt(p, i) \in Range(UpperLetters) \cup Range(LowerLetters) \cup Digits \cup Whitespace

\* toks are the tokens of the statement run for a name search
PatternOnly(sql, toks) ==
    /\ Len(toks) = 10
    /\ toks = NameSearchTokens(toks[8].v)
    /\ IsNamePattern(toks[8].v)
    /\ \A d \in Databases : sqlite_execute(sql, d).db = d
    /\ \A d \in StoredTables : ~sqlite_execute(sql, d).raised

ExtractedName(q) == Strip(re_search(q).group)

\* C6 (parameter binding): for every question that reaches the name search, the
\* name extracted from it is bound as a parameter and is no part of the query
\* text.
C6_ParameterBinding ==
    (pc = "resolved" /\ NameSearched(resolver, Normalised(resolver, question))
        /\ ExtractedName(Normalised(resolver, question)) # "") =>
        ~Contains(sql_query, ExtractedName(Normalised(resolver, question)))

\* the account-category keywords of the claimed order: the size keywords and
\* the others alike, with no gate
ClaimedMatches(res, rule, q) ==
    CASE rule = "account" -> SizeKeywords(q) \/ OtherAccountKeywords(q)
      [] rule = "company" -> CompanyKeywords(q)
      [] OTHER -> RuleMatches(res, rule, q)

ClaimedOrder == <<"listing", "count", "status", "account", "company", "generic", "name">>

ClaimedRule(res, q) ==
    LET Matches(rule) == ClaimedMatches(res, rule, q)
    IN  FirstMatch(ClaimedOrder, Matches, q)

\* size and other account-category templates taken as one class
Coarse(rule) == IF rule = "size" THEN "account" ELSE rule

PayloadText(resp) ==
    CASE resp.kind = "http_error" -> resp.detail
      [] resp.kind = "text"       -> resp.text
      [] resp.kind = "html"       -> resp.sql \o resp.text
      [] OTHER                    -> ""

\* C11 (query errors carry the query): whenever the query block of a request
\* fails, the error the client gets on its channel holds the storage error
\* message and the text of the query that was attempted.
C11_ErrorsCarryQuery ==
    (pc = "done" /\ storage_calls = 1 /\ entry \in EntryPoints /\ IsQueryError(response)) =>
        /\ Contains(PayloadText(response), run_query(sql_query, db_at_start).error)
        /\ Contains(PayloadText(response), sql_query)

\* the result of the query block had the statement returned one row
WithOneRow(r) ==
    [r EXCEPT !.results = <<MakeDict([i \in 1..Len(r.columns) |-> TextCell(r.columns[i])],
                                     [i \in 1..Len(r.columns) |-> NullCell])>>]

NoResultsText == "No results found."

\* the payload for no rows tells the reader so in a way the payload the same
\* handler builds for rows does not: by its text, or, in an envelope, by a key
NoResultsIndicated(resp, rows) ==
    CASE resp.kind \in {"text", "html"} ->
            /\ Contains(resp.text, NoResultsText)
            /\ ~Contains(rows.text, NoResultsText)
      [] resp.kind = "json" -> resp.keys # rows.keys
      [] OTHER -> FALSE

ZeroRowPayload(r) ==
    (r.ok /\ r.results = <<>>) =>
        /\ ~IsQueryError(response)
        /\ NoResultsIndicated(response,
               render(program, entry, question, sql_query, WithOneRow(r), llm_available))

\* C12 (zero-row case): when the query runs and returns no rows, the payload
\* of the channel is not an error payload and holds an explicit indication of
\* no results that the payload for one or more rows does not have.
C12_ZeroRowIndication ==
    (pc = "done" /\ storage_calls = 1 /\ entry \in EntryPoints) =>
        ZeroRowPayload(run_query(sql_query, db_at_start))

\* the names of the keys of one entry of results, in the dict's order
EntryKeys(d) == [i \in 1..Len(d) |-> DictKeys(d)[i].s]

EnvelopeKeys == {"sql", "columns", "results", "count"}

\* C13 (JSON envelope shape): every successful JSON query response has the
\* keys sql, columns, results and count; sql is the query text that was
\* executed, count is the number of entries of results, and the keys of every
\* entry are the names in columns, in the same order.
C13_EnvelopeShape ==
    (pc = "done" /\ storage_calls = 1 /\ response.kind = "json") =>
        /\ EnvelopeKeys \subseteq Range(response.keys)
        /\ response.sql = sql_query
        /\ response.count = Len(response.results)
        /\ \A i \in 1..Len(response.results) :
               EntryKeys(response.results[i]) = response.columns

(***************************************************************************)
(* Further properties of the rule-based resolvers (specification           *)
(* SpecResolve).                                                           *)
(***************************************************************************)
ListingColumns == <<"CompanyName", "CompanyNumber", "CompanyStatus">>

\* r is what the query block made of a query text on one table
ListingResult(r) ==
    /\ r.ok
    /\ Len(r.results) <= 10
    /\ r.columns = ListingColumns

ListingQuery(stmts, q) ==
    /\ q.ok /\ q.table = "companies" /\ ~q.where /\ q.limit = 10
    /\ \A d \in StoredTables : ListingResult(fetch_results(ExecuteStatements(stmts, d)))

ListingQuestion(q) == Contains(Lower(q), "list") /\ Contains(Lower(q), "companies")

\* C14 (scenario A generalised): a question containing 'list' and 'companies'
\* is resolved to a query over companies with LIMIT 10 and no filter, whose
\* execution succeeds on every stored table and returns at most 10 rows under
\* exactly the stored column names CompanyName, CompanyNumber, CompanyStatus.
C14_ListingScenario ==
    (pc = "resolved" /\ ListingQuestion(question)) =>
        ListingQuery(Statements(sql_query), ParseSelect(Statements(sql_query)[1]))

(***************************************************************************)
(* Progress of a request.  The servers do their own steps: a handler that  *)
(* holds its payload returns it.  Nothing in llm_to_sql bounds the call to *)
(* the model (no timeout argument, no task to cancel it), so the answer    *)
(* and the failure of the model are left to the model and the network and  *)
(* carry no fairness condition.                                            *)
(***************************************************************************)
SpecLive == Init /\ [][Next]_vars /\ WF_vars(Return)

\* C15 (bounded model call): a request that is attempting the model is
\* eventually given a resolved query and answered, even if the model never
\* responds; no request stays in the attempting-model state forever.
C15_BoundedModelCall == (pc = "attempting_model") ~> (pc = "done")

\* the tokens of a parsed SELECT that stand where a column is named: the
\* entries of the select list (but COUNT(*) and *) and the left operand of
\* every comparison
ColumnTokens(q) ==
    {q.items[i][1] : i \in {j \in 1..Len(q.items) : ItemShape(q.items[j]) = "operand"}}
        \cup {q.terms[i][1] : i \in {j \in 1..Len(q.terms) : q.terms[j] # <<>>}}

\* the names are those of the table as created by the loader, byte for byte
StoredSpelling(q) == \A t \in ColumnTokens(q) : t.v \in Range(TableColumns)

\* C16 (column spelling): every column name written in a query text of a
\* rule-based resolver is byte-for-byte the name of a column of the companies
\* table as the loader creates it; the company-number column has no leading
\* space.
C16_ColumnSpelling ==
    pc = "resolved" => StoredSpelling(ParseSelect(Statements(sql_query)[1]))

(***************************************************************************)
(* Further properties of the request pipeline (specification Spec).        *)
(***************************************************************************)
\* the servers that read the schema when they are constructed
SchemaReaders == {"llm_mcp_server", "web_mcp_server"}

\* C17 (schema unavailability is an error): a server that has read the schema
\* holds a description with the columns of the companies table; when the table
\* is missing the read fails, so no server goes on, and no prompt is built,
\* with a description whose column list is empty.
C17_SchemaUnavailable ==
    (program \in SchemaReaders /\ pc # "start") => schema.columns # <<>>

\* one step of a server, as to the resolvers it runs for the request in hand
SingleFallbackStep ==
    /\ model_calls' <= 1 /\ rule_calls' <= 1
    /\ pc = "attempting_model" => model_calls' = model_calls
    /\ model_failed' => model_calls' = 1
    /\ rule_calls' = 1 => ~llm_available' \/ model_failed'
    /\ source' = "model" => rule_calls' = 0 /\ ~model_failed'
    /\ storage_calls = 1 =>
           pc' = "idle" /\ model_calls' = 0 /\ rule_calls' = 0 /\ storage_calls' = 0

\* C18 (single fallback step): within one request the model is called at most
\* once and the rule-based resolver at most once; the rule-based resolver runs
\* only when no model is available or after the model call of the request has
\* failed; once the query text is resolved and run, whether or not it failed
\* in execution, no resolver runs again before the request is answered.
C18_SingleFallbackStep == [][SingleFallbackStep]_vars

\* the model call failed, the rule-based query was run once and failed too
C18_Witness ==
    /\ pc = "done" /\ model_calls = 1 /\ model_failed /\ rule_calls = 1
    /\ storage_calls = 1 /\ IsQueryError(response)

\* C19 (provenance is truthful): llm_used in the JSON response of the web
\* server says that the model was used exactly when the query text that was
\* executed came from the model; after a failed model call the rule-based
\* query is executed and the response says so.
C19_Provenance ==
    (pc = "done" /\ program = "web_mcp_server" /\ response.kind = "json") =>
        (response.llm_used <=> source = "model")

Fence == "^^^"

\* a query text as llm_to_sql is to return it
Normal(text) ==
    /\ Strip(text) = text
    /\ ~StartsWith(text, Fence) /\ ~EndsWith(text, Fence)
    /\ clean_response(text) = text

\* C20 (model output normalisation): the text llm_to_sql returns for a model
\* response has no whitespace and no code-fence marker at either end, whether
\* or not the opening fence has a language tag, and normalising it again
\* changes nothing.
C20_Normalisation ==
    (pc = "done" /\ source = "model") => Normal(sql_query)

\* C21 (connections are short-lived): every connection opened for a query
\* request is closed by the time the request has returned, whether the query
\* ran or raised; with no request in flight no connection is open.
C21_ConnectionsClosed ==
    pc = "idle" => open_connections = 0

====
